---- MODULE Spec2Model ----
(***************************************************************************)
(* A model of blockchain.py: the Blockchain object (chain, pending pool,   *)
(* address ledger, peer set), the two files it persists to, and the Flask  *)
(* handlers that drive it (/transactions/new, /mine, /node/register,       *)
(* /node/resolve).  One action models one whole handler.                   *)
(*                                                                         *)
(* Conventions.                                                            *)
(*  - Python's None in an index position is 0; list indices are 1-based.   *)
(*  - A Transaction object is a record that has an "executed" field (and   *)
(*    an "id", its object identity); a transaction dict, as found in a     *)
(*    chain taken from a peer, is a record without them.                   *)
(*  - A digest is the tuple of the hashed block's fields in sorted key     *)
(*    order, so hash is injective; the genesis previous_hash (the integer  *)
(*    1 in the source) is the one-element tuple <<1>>.                     *)
(*  - SHA-256 over the proof string is replaced by a small digest of the   *)
(*    decimal concatenation, see valid_proof.                              *)
(***************************************************************************)
EXTENDS Integers, Sequences, FiniteSets, TLC

\* ------------------------------------------------------------------ bounds
\* the longest chain the node grows to by mining
MaxChain == 3
\* the number of admitted transactions (coinbase included) explored
MaxTx == 3
\* signatures are offered over the transaction counts 0..MaxCount
MaxCount == 2
\* the wall clock is read within 0..MaxTime
MaxTime == 1
\* proof_of_work searches 0..MaxProof
MaxProof == 9
\* the longest chain a peer serves
MaxPeerLen == 3
\* proof_of_work alone is called with the last proofs 0..MaxLastProof
MaxLastProof == 100
\* the longest chain a chain file holds at startup
MaxFileLen == 3
\* the most transactions a block of such a file holds
MaxBlockTx == 1

\* ------------------------------------------------------- program constants
\* the proof the genesis block is created with
GenesisProof == 100
\* the amount of a coinbase (mining reward) transaction
Reward == 1
\* valid_proof asks for 4 leading zero hex digits of the digest; the digest
\* here ranges over 0..DigestSpace-1 and "leading zeros" means digest 0
DigestSpace == 3

\* the node's own key, a global of the program
public_key == "N"
\* the identities requests name besides the sentinel "0"
Identities == {"N", "A"}
\* the amounts requests carry
Amounts == {-1, 0, 1, 2}
\* the messages requests carry ("None": no message given)
Messages == {"None"}

VARIABLES
  chain,                 \* self.chain
  current_transactions,  \* self.current_transactions
  addresses,             \* self.addresses
  nodes,                 \* self.nodes
  chain_file,            \* the content of CHAIN_FILE
  nodes_file,            \* the content of NODES_FILE
  clock,                 \* the last value time() returned
  admitted,              \* the Transaction objects new_transaction appended, in order
  request,               \* the HTTP request being handled
  response               \* what its handler has computed, until it is sent

vars == <<chain, current_transactions, addresses, nodes, chain_file,
          nodes_file, clock, admitted, request, response>>

\* ------------------------------------------------------------ sequences
RECURSIVE Flatten(_)
\* the concatenation of a sequence of sequences
Flatten(ss) ==
  IF ss = <<>> THEN <<>> ELSE Head(ss) \o Flatten(Tail(ss))

RECURSIVE SumAmounts(_)
\* the sum of the amounts of a sequence of transactions
SumAmounts(ts) ==
  IF ts = <<>> THEN 0 ELSE Head(ts).amount + SumAmounts(Tail(ts))

\* ------------------------------------------------------------ signatures
\* signature=None
NoSignature == [kind |-> "None", signer |-> "", msg |-> <<>>]

\* the signature the holder of signer's private key makes over msg
Sign(signer, msg) == [kind |-> "ecdsa", signer |-> signer, msg |-> msg]

\* ecdsa.verify(sig, msg, Q): sig was made over msg with the key of Q
ecdsa_verify(sig, msg, Q) ==
  sig.kind = "ecdsa" /\ sig.signer = Q /\ sig.msg = msg

\* ------------------------------------------------------------- addresses
NotFound == -1

Address(address) == [address |-> address, amount |-> 0]

\* the index of the wallet in addrs; 0 for the sentinel; NotFound for
\* AddressNotFound
get_address(addrs, address) ==
  IF address = "0" THEN 0
  ELSE IF \E i \in 1..Len(addrs) : addrs[i].address = address
       THEN CHOOSE i \in 1..Len(addrs) :
              /\ addrs[i].address = address
              /\ \A j \in 1..(i - 1) : addrs[j].address # address
       ELSE NotFound

getOrCreateAddress(addrs, address) ==
  IF get_address(addrs, address) # NotFound
  THEN [addresses |-> addrs, index |-> get_address(addrs, address)]
  ELSE [addresses |-> Append(addrs, Address(address)),
        index |-> Len(addrs) + 1]

\* ----------------------------------------------------------- transactions
Transaction(id, sender, recipient, amount, signature, message) ==
  [id |-> id,
   sender |-> sender[1], senderIndex |-> sender[2],
   recipient |-> recipient[1], recipientIndex |-> recipient[2],
   amount |-> amount, message |-> message, signature |-> signature,
   executed |-> FALSE]

\* a Transaction object, as opposed to a dict loaded from JSON
IsObject(t) == "executed" \in DOMAIN t

\* the sender's balance is not looked at
is_valid_NoBalanceCheck(t, addrs) ==
  ~(t.amount = 0)

is_valid(t, addrs) ==
  ~((t.sender # "0" /\ addrs[t.senderIndex].amount < t.amount)
     \/ t.amount = 0)

\* "valid", "invalid", or "raise" (signature None has no split; the
\* sentinel recipient has no address attribute)
is_signature_valid(t, transactions) ==
  IF t.sender = "0" THEN "valid"
  ELSE IF t.signature.kind = "None" THEN "raise"
  ELSE IF t.recipient = "0" THEN "raise"
  ELSE LET sender_transactions == Len(transactions)
           msg_signed == <<t.sender, t.recipient, t.message, t.amount,
                           sender_transactions>>
       IN IF ecdsa_verify(t.signature, msg_signed, t.sender)
          THEN "valid" ELSE "invalid"

\* both balances computed from the ledger as it was before the transaction
execute_transaction_StaleRead(addrs, t) ==
  LET debited == IF t.sender # "0"
                 THEN [addrs EXCEPT ![t.senderIndex].amount = @ - t.amount]
                 ELSE addrs
  IN [debited EXCEPT ![t.recipientIndex].amount =
                       addrs[t.recipientIndex].amount + t.amount]

\* the ledger after the transaction; the transaction gets executed = TRUE
execute_transaction(addrs, t) ==
  LET debited == IF t.sender # "0"
                 THEN [addrs EXCEPT ![t.senderIndex].amount = @ - t.amount]
                 ELSE addrs
  IN [debited EXCEPT ![t.recipientIndex].amount = @ + t.amount]

\* None, in the place of a list
None == <<"None">>

\* does transaction t of a block or of the pool contain the address
Contains(t, address) ==
  IF IsObject(t)
  THEN address \in {t.sender, t.recipient}
  ELSE address = "0" /\ address \in {t.sender, t.recipient}

RECURSIVE Containing(_, _)
\* the transactions of ts that contain the address, in order
Containing(ts, address) ==
  IF ts = <<>> THEN <<>>
  ELSE (IF Contains(Head(ts), address) THEN <<Head(ts)>> ELSE <<>>)
       \o Containing(Tail(ts), address)

\* the pair (transactions, future_transactions), or (None, None)
getTransactionsByAddress(addrs, ch, pool, address) ==
  IF get_address(addrs, address) = NotFound THEN <<None, None>>
  ELSE LET perBlock == [i \in 1..Len(ch) |->
                          Containing(ch[i].transactions, address)]
       IN <<Flatten(perBlock), Containing(pool, address)>>

\* --------------------------------------------------------- serialization
\* transactions_to_jsonSerializable raises on a dict (no attribute sender)
Serializable(transactions) ==
  \A i \in 1..Len(transactions) : IsObject(transactions[i])

transactions_to_jsonSerializable(transactions) ==
  [i \in 1..Len(transactions) |->
     [sender |-> transactions[i].sender,
      recipient |-> transactions[i].recipient,
      amount |-> transactions[i].amount,
      message |-> transactions[i].message,
      signature |-> transactions[i].signature]]

block_to_jsonSerializable(block) ==
  [index |-> block.index, timestamp |-> block.timestamp,
   proof |-> block.proof, previous_hash |-> block.previous_hash,
   transactions |-> transactions_to_jsonSerializable(block.transactions)]

ChainSerializable(ch) ==
  \A i \in 1..Len(ch) : Serializable(ch[i].transactions)

chain_to_jsonSerializable(ch) ==
  [i \in 1..Len(ch) |-> block_to_jsonSerializable(ch[i])]

\* --------------------------------------------------------------- hashing
\* the digest of a JSON-serializable block: its fields in sorted key order
hash(block) ==
  <<block.index, block.previous_hash, block.proof, block.timestamp,
    block.transactions>>

\* previous_hash=1 of the genesis block
GenesisHash == <<1>>

\* previous_hash=None
NoHash == <<>>

\* json.dumps takes the block: it holds no Transaction object (it raises
\* TypeError on one)
Hashable(block) ==
  \A i \in 1..Len(block.transactions) : ~IsObject(block.transactions[i])

\* --------------------------------------------------------- proof of work
RECURSIVE NumDigits(_)
NumDigits(n) == IF n < 10 THEN 1 ELSE 1 + NumDigits(n \div 10)

RECURSIVE Pow10(_)
Pow10(k) == IF k = 0 THEN 1 ELSE 10 * Pow10(k - 1)

\* f'{last_proof}{proof}' read back as a number
Guess(last_proof, proof) == last_proof * Pow10(NumDigits(proof)) + proof

valid_proof(last_proof, proof) ==
  Guess(last_proof, proof) % DigestSpace = 0

RECURSIVE SearchProof(_, _)
SearchProof(last_proof, proof) ==
  IF proof > MaxProof \/ valid_proof(last_proof, proof) THEN proof
  ELSE SearchProof(last_proof, proof + 1)

\* the first proof from 0 on that is valid (MaxProof + 1: none in range)
proof_of_work(last_proof) == SearchProof(last_proof, 0)

\* ------------------------------------------------------------ operations
\* new_transaction on the ledger (addrs, ch, pool): the outcome
\* ("accepted", "rejected" for None, "raised"), the index returned, and the
\* ledger it leaves
new_transaction(addrs, ch, pool, id, sender, recipient, amount, signature, message) ==
  LET senderIndex == get_address(addrs, sender)
      rc == getOrCreateAddress(addrs, recipient)
      transaction == Transaction(id, <<sender, senderIndex>>,
                                 <<recipient, rc.index>>, amount,
                                 signature, message)
      sender_transactions ==
        getTransactionsByAddress(rc.addresses, ch, pool, sender)
      executed == [transaction EXCEPT !.executed = TRUE]
      Result(outcome, as, p) ==
        [outcome |-> outcome,
         index |-> IF outcome = "accepted"
                   THEN (IF Len(ch) = 0 THEN 0 ELSE ch[Len(ch)].index + 1)
                   ELSE 0,
         addresses |-> as, current_transactions |-> p]
  IN IF senderIndex = NotFound THEN Result("rejected", addrs, pool)
     ELSE IF ~is_valid(transaction, rc.addresses)
       THEN Result("rejected", rc.addresses, pool)
     ELSE IF is_signature_valid(transaction, sender_transactions) = "raise"
       THEN Result("raised", rc.addresses, pool)
     ELSE IF is_signature_valid(transaction, sender_transactions) = "invalid"
       THEN Result("rejected", rc.addresses, pool)
     ELSE IF rc.index = 0
       THEN Result("raised", rc.addresses, pool)
     ELSE Result("accepted", execute_transaction(rc.addresses, transaction),
                 Append(pool, executed))

\* the pending pool is not emptied
new_block_KeepPool(ch, pool, proof, previous_hash, now) ==
  LET raised == previous_hash = NoHash
                  /\ (Len(ch) = 0 \/ ~Hashable(ch[Len(ch)]))
      block == [index |-> IF Len(ch) # 0 THEN Len(ch) ELSE 0,
                timestamp |-> now,
                transactions |-> pool,
                proof |-> proof,
                previous_hash |-> IF previous_hash # NoHash
                                  THEN previous_hash
                                  ELSE hash(ch[Len(ch)])]
  IN IF raised
     THEN [raised |-> TRUE, chain |-> ch, current_transactions |-> pool]
     ELSE [raised |-> FALSE, chain |-> Append(ch, block),
           current_transactions |-> pool, block |-> block]

\* new_block up to its call of update_chainFile: the chain, the pool and
\* the block it returns.  raised: previous_hash is None and self.chain[-1]
\* or the hash of it raises, before anything is assigned
new_block(ch, pool, proof, previous_hash, now) ==
  LET raised == previous_hash = NoHash
                  /\ (Len(ch) = 0 \/ ~Hashable(ch[Len(ch)]))
      block == [index |-> IF Len(ch) # 0 THEN Len(ch) ELSE 0,
                timestamp |-> now,
                transactions |-> pool,
                proof |-> proof,
                previous_hash |-> IF previous_hash # NoHash
                                  THEN previous_hash
                                  ELSE hash(ch[Len(ch)])]
  IN IF raised
     THEN [raised |-> TRUE, chain |-> ch, current_transactions |-> pool]
     ELSE [raised |-> FALSE, chain |-> Append(ch, block),
           current_transactions |-> <<>>, block |-> block]

\* update_chainFile: chain_to_jsonSerializable raises before the file is
\* opened when a block holds transaction dicts
update_chainFile(ch, file) ==
  IF ChainSerializable(ch) THEN chain_to_jsonSerializable(ch) ELSE file

\* --------------------------------------------------------------- peers
\* urlparse(address).netloc for the addresses peers are registered with
Netloc(address) ==
  CASE address = "http://p1:5000" -> "p1:5000"
    [] address = "http://p1:5000/chain" -> "p1:5000"
    [] address = "http://p2:5000" -> "p2:5000"

\* the hash of the previous block is not compared
RECURSIVE valid_chain_NoHashCheck(_)
valid_chain_NoHashCheck(ch) ==
  IF Len(ch) <= 1 THEN TRUE
  ELSE /\ valid_proof(ch[Len(ch) - 1].proof, ch[Len(ch)].proof)
       /\ ~(ch[Len(ch)].timestamp < ch[Len(ch) - 1].timestamp)
       /\ valid_chain_NoHashCheck(SubSeq(ch, 1, Len(ch) - 1))

RECURSIVE ValidFrom(_, _, _)
\* the loop of valid_chain from current_index (a position of the source,
\* from 0) on
ValidFrom(ch, last_block, current_index) ==
  IF ~(current_index < Len(ch)) THEN TRUE
  ELSE LET block == ch[current_index + 1]
       IN IF block.previous_hash # hash(last_block) THEN FALSE
          ELSE IF ~valid_proof(last_block.proof, block.proof) THEN FALSE
          ELSE IF block.timestamp < last_block.timestamp THEN FALSE
          ELSE ValidFrom(ch, block, current_index + 1)

\* valid_chain of a chain that has a first block (it raises IndexError on
\* the empty list)
valid_chain(ch) == ValidFrom(ch, ch[1], 1)

\* the test for an empty set of neighbours is left out
resolve_conflicts_NoAloneCheck(ns, ch, node, answer) ==
  LET max_length == Len(ch)
      Returned(replaced, invalid_chains, c) ==
        [raised |-> FALSE, replaced |-> replaced,
         invalid_chains |-> invalid_chains, chain |-> c]
      Raised == [raised |-> TRUE, replaced |-> FALSE,
                 invalid_chains |-> <<>>, chain |-> ch]
  IN IF answer.fetch = "conn_error" THEN Raised
     ELSE IF answer.status # 200 THEN Returned(FALSE, <<>>, ch)
     ELSE IF answer.length > max_length
       THEN IF answer.chain = <<>> THEN Raised
            ELSE IF valid_chain(answer.chain)
              THEN Returned(TRUE, <<>>, answer.chain)
              ELSE Returned(FALSE, <<node>>, ch)
     ELSE IF answer.length < max_length
       THEN IF answer.chain = <<>> THEN Raised
            ELSE IF valid_chain(answer.chain)
              THEN Returned(FALSE, <<>>, ch)
              ELSE Returned(FALSE, <<node>>, ch)
     ELSE Returned(FALSE, <<node>>, ch)

\* resolve_conflicts when the iteration over self.nodes yields node first
\* and the fetch from it gives answer: the loop body returns in its first
\* round.  raised: an exception leaves the method (the fetch failed, or
\* valid_chain was called on an empty list)
resolve_conflicts(ns, ch, node, answer) ==
  LET max_length == Len(ch)
      Returned(replaced, invalid_chains, c) ==
        [raised |-> FALSE, replaced |-> replaced,
         invalid_chains |-> invalid_chains, chain |-> c]
      Raised == [raised |-> TRUE, replaced |-> FALSE,
                 invalid_chains |-> <<>>, chain |-> ch]
  IN IF ns = {} THEN Returned(FALSE, <<>>, ch)
     ELSE IF answer.fetch = "conn_error" THEN Raised
     ELSE IF answer.status # 200 THEN Returned(FALSE, <<>>, ch)
     ELSE IF answer.length > max_length
       THEN IF answer.chain = <<>> THEN Raised
            ELSE IF valid_chain(answer.chain)
              THEN Returned(TRUE, <<>>, answer.chain)
              ELSE Returned(FALSE, <<node>>, ch)
     ELSE IF answer.length < max_length
       THEN IF answer.chain = <<>> THEN Raised
            ELSE IF valid_chain(answer.chain)
              THEN Returned(FALSE, <<>>, ch)
              ELSE Returned(FALSE, <<node>>, ch)
     ELSE Returned(FALSE, <<node>>, ch)

\* ----------------------------------------------------------------- Init
\* Blockchain() on an empty chain file and an empty nodes file: the genesis
\* transaction and the genesis block
GenesisTx ==
  new_transaction(<<>>, <<>>, <<>>, 1, "0", public_key, Reward,
                  NoSignature, "None")

GenesisBlock ==
  new_block(<<>>, GenesisTx.current_transactions, GenesisProof,
            GenesisHash, 0)

NoRequest == [op |-> "none"]

NoResponse == [outcome |-> "none"]

Init ==
  /\ chain = GenesisBlock.chain
  /\ current_transactions = GenesisBlock.current_transactions
  /\ addresses = GenesisTx.addresses
  /\ nodes = {}
  /\ chain_file = update_chainFile(GenesisBlock.chain, <<>>)
  /\ nodes_file = {}
  /\ clock = 0
  /\ admitted = GenesisTx.current_transactions
  /\ request = NoRequest
  /\ response = NoResponse

\* ------------------------------------------------------------- requests
\* the signatures a request for (sender, recipient, message, amount) may
\* carry: none, or one over any transaction count made by the sender over
\* these fields, by the sender over another amount, or by somebody else
Signatures(sender, recipient, message, amount) ==
  IF sender = "0" THEN {NoSignature}
  ELSE {NoSignature} \cup
       {Sign(sender, <<sender, recipient, message, amount, n>>) :
          n \in 0..MaxCount} \cup
       {Sign(sender, <<sender, recipient, message, amount + 1, n>>) :
          n \in 0..MaxCount} \cup
       {Sign(signer, <<sender, recipient, message, amount, n>>) :
          signer \in Identities \ {sender}, n \in 0..MaxCount}

\* the bodies of POST /transactions/new that hold every required value
AdmitRequests ==
  UNION {{[op |-> "admit", sender |-> sender, recipient |-> recipient,
           amount |-> amount, signature |-> signature, message |-> message] :
            signature \in Signatures(sender, recipient, message, amount)} :
         sender \in Identities \cup {"0"},
         recipient \in Identities \cup {"0"},
         amount \in Amounts, message \in Messages}

MineRequest == [op |-> "mine"]

\* a request reaches the node while it handles no other
Receive(req) ==
  /\ request = NoRequest
  /\ request' = req
  /\ UNCHANGED <<chain, current_transactions, addresses, nodes, chain_file,
                 nodes_file, clock, admitted, response>>

\* the handler's return value is sent
Respond ==
  /\ response # NoResponse
  /\ request' = NoRequest
  /\ response' = NoResponse
  /\ UNCHANGED <<chain, current_transactions, addresses, nodes, chain_file,
                 nodes_file, clock, admitted>>

\* ------------------------------------------------- POST /transactions/new
Admit ==
  /\ request.op = "admit"
  /\ response = NoResponse
  /\ Len(admitted) < MaxTx
  /\ LET r == new_transaction(addresses, chain, current_transactions,
                              Len(admitted) + 1, request.sender,
                              request.recipient, request.amount,
                              request.signature, request.message)
     IN /\ addresses' = r.addresses
        /\ current_transactions' = r.current_transactions
        /\ admitted' = IF r.outcome = "accepted"
                       THEN Append(admitted,
                                   r.current_transactions[Len(r.current_transactions)])
                       ELSE admitted
        /\ response' = [outcome |-> r.outcome, index |-> r.index]
  /\ UNCHANGED <<chain, nodes, chain_file, nodes_file, clock, request>>

\* ------------------------------------------------------------- GET /mine
Mine(now) ==
  /\ request.op = "mine"
  /\ response = NoResponse
  /\ Len(chain) < MaxChain
  /\ Len(admitted) < MaxTx
  /\ now >= clock
  /\ LET last_block == chain[Len(chain)]
     IN IF ~Serializable(last_block.transactions)
        THEN /\ response' = [outcome |-> "raised"]
             /\ UNCHANGED <<chain, current_transactions, addresses,
                            chain_file, clock, admitted>>
        ELSE LET lb == block_to_jsonSerializable(last_block)
                 proof == proof_of_work(lb.proof)
                 r == new_transaction(addresses, chain, current_transactions,
                                      Len(admitted) + 1, "0", public_key,
                                      Reward, NoSignature, "None")
                 previous_hash == hash(lb)
                 b == new_block(chain, r.current_transactions, proof,
                                previous_hash, now)
             IN /\ proof <= MaxProof
                /\ addresses' = r.addresses
                /\ admitted' = Append(admitted,
                                 r.current_transactions[Len(r.current_transactions)])
                /\ chain' = b.chain
                /\ current_transactions' = b.current_transactions
                /\ chain_file' = update_chainFile(b.chain, chain_file)
                /\ clock' = now
                /\ response' = [outcome |-> IF ChainSerializable(b.chain)
                                            THEN "returned" ELSE "raised"]
  /\ UNCHANGED <<nodes, nodes_file, request>>

\* --------------------------------------------------- POST /node/register
\* the bodies of POST /node/register that hold a list of nodes
RegisterRequests ==
  {[op |-> "register", nodes |-> ns] :
     ns \in {<<"http://p1:5000">>, <<"http://p1:5000/chain">>,
             <<"http://p2:5000", "http://p1:5000">>}}

RECURSIVE Netlocs(_)
Netlocs(as) ==
  IF as = <<>> THEN {} ELSE {Netloc(Head(as))} \cup Netlocs(Tail(as))

\* register_node for every node of the list, each followed by
\* update_nodesFile
RegisterNodes ==
  /\ request.op = "register"
  /\ response = NoResponse
  /\ nodes' = nodes \cup Netlocs(request.nodes)
  /\ nodes_file' = nodes'
  /\ response' = [outcome |-> "returned"]
  /\ UNCHANGED <<chain, current_transactions, addresses, chain_file, clock,
                 admitted, request>>

\* ------------------------------------------------------ GET /node/resolve
\* a time ahead of the node's clock
FutureTime == MaxTime + 1

\* a coinbase transaction of a peer, as its /chain serves it
PeerCoinbase ==
  [sender |-> "0", recipient |-> "P", amount |-> Reward,
   message |-> "None", signature |-> NoSignature]

PeerGenesis(timestamp, transactions) ==
  [index |-> 0, timestamp |-> timestamp, transactions |-> transactions,
   proof |-> GenesisProof, previous_hash |-> GenesisHash]

\* the chain with one more block, mined on its last block
Extended(ch, timestamp, transactions) ==
  Append(ch, [index |-> Len(ch), timestamp |-> timestamp,
              transactions |-> transactions,
              proof |-> proof_of_work(ch[Len(ch)].proof),
              previous_hash |-> hash(ch[Len(ch)])])

RECURSIVE MinedChain(_, _, _)
\* a chain of n blocks mined at the timestamp, the last block with the
\* transactions and the others with none
MinedChain(n, timestamp, transactions) ==
  IF n = 1 THEN <<PeerGenesis(timestamp, transactions)>>
  ELSE IF n = 2
    THEN Extended(<<PeerGenesis(timestamp, <<>>)>>, timestamp, transactions)
  ELSE Extended(MinedChain(n - 1, timestamp, <<>>), timestamp, transactions)

\* the chain with one field of the block at position i (from 1) changed
Tampered(ch, i, field, value) == [ch EXCEPT ![i][field] = value]

\* the chains peers serve: mined ones, one whose last block repeats the
\* index 0, and a longest one with a broken link, a wrong proof or a
\* timestamp that goes back
PeerChains ==
  {MinedChain(1, 0, <<>>),
   MinedChain(2, 0, <<PeerCoinbase>>),
   MinedChain(2, FutureTime, <<>>),
   Tampered(MinedChain(2, 0, <<>>), 2, "index", 0),
   MinedChain(MaxPeerLen, 0, <<>>),
   Tampered(MinedChain(MaxPeerLen, 0, <<>>), 2, "previous_hash", GenesisHash),
   Tampered(MinedChain(MaxPeerLen, 0, <<>>), MaxPeerLen, "proof",
            proof_of_work(MinedChain(MaxPeerLen, 0, <<>>)[MaxPeerLen - 1].proof) + 1),
   Tampered(MinedChain(MaxPeerLen, FutureTime, <<>>), MaxPeerLen, "timestamp", 0)}

\* what the fetch of /chain from a peer gives: no connection, an error
\* status, or a chain with the length the peer reports for it
PeerAnswers ==
  {[fetch |-> "ok", status |-> 200, length |-> Len(c), chain |-> c] :
     c \in PeerChains}
  \cup {[fetch |-> "ok", status |-> 200, length |-> 0, chain |-> <<>>],
        [fetch |-> "ok", status |-> 200, length |-> MaxPeerLen + 1,
         chain |-> MinedChain(1, 0, <<>>)],
        [fetch |-> "ok", status |-> 500, length |-> 0, chain |-> <<>>],
        [fetch |-> "conn_error", status |-> 0, length |-> 0, chain |-> <<>>]}

ResolveRequest == [op |-> "resolve"]

\* consensus() when the peers would answer as in answers and the set
\* iteration starts at node first
Resolve(first, answers) ==
  /\ request.op = "resolve"
  /\ response = NoResponse
  /\ nodes # {} => first \in nodes
  /\ LET r == resolve_conflicts(nodes, chain, first, answers[first])
     IN /\ chain' = r.chain
        /\ response' =
             [outcome |-> IF r.raised \/ ~ChainSerializable(r.chain)
                          THEN "raised" ELSE "returned",
              resolved |-> ~r.raised,
              replaced |-> r.replaced,
              invalid_chains |-> r.invalid_chains,
              first |-> first,
              answers |-> answers]
  /\ UNCHANGED <<current_transactions, addresses, nodes, chain_file,
                 nodes_file, clock, admitted, request>>

\* ------------------------------------------------------- specifications
ReceiveLedger == \E req \in AdmitRequests \cup {MineRequest} : Receive(req)

MineAny == \E now \in 0..MaxTime : Mine(now)

\* the node with no peers: transactions are admitted and blocks are mined
NextLedger == ReceiveLedger \/ Admit \/ MineAny \/ Respond

SpecLedger == Init /\ [][NextLedger]_vars

\* the admissions explored next to consensus: coinbase-like ones and
\* transfers signed by their sender over any count, of one unit or of none
CoreAdmitRequests ==
  {req \in AdmitRequests :
     /\ req.amount \in {0, Reward}
     /\ req.recipient # "0"
     /\ \/ req.sender = "0"
        \/ /\ req.signature.kind = "ecdsa"
           /\ req.signature.signer = req.sender
           /\ req.signature.msg[4] = req.amount}

ReceiveAny ==
  \E req \in CoreAdmitRequests \cup {MineRequest, ResolveRequest}
               \cup RegisterRequests :
    Receive(req)

NoNode == "none"

ResolveAny ==
  \E first \in IF nodes = {} THEN {NoNode} ELSE nodes :
    \E answers \in [nodes \cup {first} -> PeerAnswers] :
      Resolve(first, answers)

\* the node among its peers
Next ==
  ReceiveAny \/ Admit \/ MineAny \/ RegisterNodes \/ ResolveAny \/ Respond

Spec == Init /\ [][Next]_vars

\* ---------------------------------------------------- valid_chain alone
\* the chains valid_chain is called with: those peers serve and mined ones
\* of every length
GivenChains ==
  PeerChains \cup
  {MinedChain(n, timestamp, transactions) :
     n \in 1..MaxPeerLen, timestamp \in {0, FutureTime},
     transactions \in {<<>>, <<PeerCoinbase>>}}

\* the values a field of a block is changed to
FieldValues(field) ==
  CASE field = "index" -> 0..MaxPeerLen
    [] field = "timestamp" -> {0, 1, FutureTime, FutureTime + 1}
    [] field = "transactions" ->
         {<<>>, <<PeerCoinbase>>, <<PeerCoinbase, PeerCoinbase>>}
    [] field = "proof" -> 0..MaxProof \cup {GenesisProof}
    [] field = "previous_hash" ->
         {GenesisHash, NoHash, hash(PeerGenesis(0, <<>>)),
          hash(PeerGenesis(FutureTime, <<>>))}

BlockFields == {"index", "timestamp", "transactions", "proof", "previous_hash"}

\* a call of valid_chain with a chain that differs from a given one in one
\* field of one block
ReceiveTampered ==
  \E original \in GivenChains :
    \E position \in 1..Len(original), field \in BlockFields :
      \E value \in FieldValues(field) \ {original[position][field]} :
        Receive([op |-> "valid_chain", original |-> original,
                 position |-> position, field |-> field,
                 chain |-> Tampered(original, position, field, value)])

ValidChain ==
  /\ request.op = "valid_chain"
  /\ response = NoResponse
  /\ response' = [outcome |-> "returned",
                  valid |-> valid_chain(request.chain)]
  /\ UNCHANGED <<chain, current_transactions, addresses, nodes, chain_file,
                 nodes_file, clock, admitted, request>>

NextValid == ReceiveTampered \/ ValidChain \/ Respond

SpecValid == Init /\ [][NextValid]_vars

\* -------------------------------------------------- proof_of_work alone
\* the proof the loop of proof_of_work tries after this one
NextProof_Skip(proof) == proof + 2

NextProof(proof) == proof + 1

\* a call of proof_of_work: proof = 0
ReceiveProofOfWork ==
  \E last_proof \in 0..MaxLastProof :
    Receive([op |-> "proof_of_work", last_proof |-> last_proof, proof |-> 0])

\* one test of the while condition of proof_of_work: the body, or the return
ProofOfWorkStep ==
  /\ request.op = "proof_of_work"
  /\ response = NoResponse
  /\ request.proof <= MaxProof
  /\ IF valid_proof(request.last_proof, request.proof) = FALSE
     THEN /\ request' = [request EXCEPT !.proof = NextProof(@)]
          /\ response' = response
     ELSE /\ response' = [outcome |-> "returned", proof |-> request.proof]
          /\ request' = request
  /\ UNCHANGED <<chain, current_transactions, addresses, nodes, chain_file,
                 nodes_file, clock, admitted>>

NextProofOfWork == ReceiveProofOfWork \/ ProofOfWorkStep \/ Respond

\* a call that has started goes on: the thread that runs it is scheduled
SpecProofOfWork ==
  Init /\ [][NextProofOfWork]_vars /\ WF_vars(ProofOfWorkStep)

\* the block as hash is given it: the dict of a block taken from a peer,
\* the serialized form of a block of Transaction objects
Hashed(block) ==
  IF Serializable(block.transactions) THEN block_to_jsonSerializable(block)
  ELSE block

\* ------------------------------------------------------ new_block alone
\* the calls of new_block: any proof in range, previous_hash left out,
\* or given as the genesis value or as the hash of the last block
ForgeRequests ==
  {[op |-> "forge", proof |-> proof, previous_hash |-> previous_hash] :
     proof \in {0, MaxProof},
     previous_hash \in {NoHash, GenesisHash, hash(Hashed(chain[Len(chain)]))}}

\* new_block(proof, previous_hash), update_chainFile included
Forge(now) ==
  /\ request.op = "forge"
  /\ response = NoResponse
  /\ Len(chain) < MaxChain
  /\ now >= clock
  /\ LET b == new_block(chain, current_transactions, request.proof,
                        request.previous_hash, now)
     IN IF b.raised
        THEN /\ response' = [outcome |-> "raised"]
             /\ UNCHANGED <<chain, current_transactions, chain_file, clock>>
        ELSE /\ chain' = b.chain
             /\ current_transactions' = b.current_transactions
             /\ chain_file' = update_chainFile(b.chain, chain_file)
             /\ clock' = now
             /\ response' = [outcome |-> IF ChainSerializable(b.chain)
                                         THEN "returned" ELSE "raised",
                             block |-> b.block]
  /\ UNCHANGED <<addresses, nodes, nodes_file, admitted, request>>

ReceiveForge ==
  \E req \in CoreAdmitRequests \cup ForgeRequests : Receive(req)

ForgeAny == \E now \in 0..MaxTime : Forge(now)

\* transactions are admitted and blocks are forged with new_block
NextForge == ReceiveForge \/ Admit \/ ForgeAny \/ Respond

SpecForge == Init /\ [][NextForge]_vars

\* ------------------------------------------------------------- startup
\* the body of the inner loop of __init__ for one transaction dict of the
\* file: the Transaction object, the verdict of the two checks ("valid",
\* "invalid", "raise") and the ledger after execute_transaction, which runs
\* whatever the verdict (the branch taken on a failed check is "pass")
ReplayTransaction(addrs, ch, transaction, id) ==
  LET sc == IF transaction.sender = "0"
            THEN [addresses |-> addrs, index |-> 0]
            ELSE getOrCreateAddress(addrs, transaction.sender)
      rc == getOrCreateAddress(sc.addresses, transaction.recipient)
      transaction_ == Transaction(id, <<transaction.sender, sc.index>>,
                                  <<transaction.recipient, rc.index>>,
                                  transaction.amount, transaction.signature,
                                  "None")
      sender_transactions ==
        getTransactionsByAddress(rc.addresses, ch, <<>>, transaction.sender)
      verdict == IF is_valid(transaction_, rc.addresses)
                 THEN is_signature_valid(transaction_, sender_transactions)
                 ELSE "invalid"
  IN IF verdict = "raise" \/ rc.index = 0
     THEN [raised |-> TRUE, addresses |-> rc.addresses]
     ELSE [raised |-> FALSE,
           addresses |-> execute_transaction(rc.addresses, transaction_),
           transaction |-> [transaction_ EXCEPT !.executed = TRUE],
           entry |-> [verdict |-> verdict, before |-> rc.addresses,
                      after |-> execute_transaction(rc.addresses, transaction_)]]

\* one round of the inner loop of __init__; st: the ledger, the objects
\* of the block and the log so far
ReplayRound(st, ch, transaction) ==
  LET r == ReplayTransaction(st.addresses, ch, transaction, st.id)
  IN IF r.raised
     THEN [st EXCEPT !.raised = TRUE, !.addresses = r.addresses]
     ELSE [st EXCEPT !.addresses = r.addresses,
                     !.id = @ + 1,
                     !.transactions_ = Append(@, r.transaction),
                     !.log = Append(@, r.entry)]

RECURSIVE ReplayTransactions(_, _, _)
\* the inner loop of __init__ over the transactions ts still to come of a
\* block (the state after a round is a value bound once, by the singleton)
ReplayTransactions(st, ch, ts) ==
  IF st.raised \/ ts = <<>> THEN st
  ELSE CHOOSE end \in {ReplayTransactions(next, ch, Tail(ts)) :
                         next \in {ReplayRound(st, ch, Head(ts))}} : TRUE

\* one round of the outer loop of __init__, for block i (from 1) of the
\* loaded chain: its transaction dicts are replaced by the objects
ReplayBlock(st, i) ==
  CHOOSE end \in
    {IF r.raised THEN r
     ELSE [r EXCEPT !.chain = [@ EXCEPT ![i].transactions = r.transactions_]] :
       r \in {ReplayTransactions([st EXCEPT !.transactions_ = <<>>],
                                 st.chain, st.chain[i].transactions)}} : TRUE

RECURSIVE ReplayBlocks(_, _)
\* the outer loop of __init__ from block i on
ReplayBlocks(st, i) ==
  IF st.raised \/ i > Len(st.chain) THEN st
  ELSE CHOOSE end \in {ReplayBlocks(next, i + 1) :
                         next \in {ReplayBlock(st, i)}} : TRUE

\* the chain and the ledger __init__ builds from the content of CHAIN_FILE,
\* with the log of what it did with each transaction
Replay(file) ==
  ReplayBlocks([raised |-> FALSE, addresses |-> <<>>, chain |-> file,
                transactions_ |-> <<>>, id |-> 1, log |-> <<>>], 1)

\* the signature the sender makes over the fields of a transfer without a
\* message (the count signed is len() of a pair)
Signed(sender, recipient, amount) ==
  Sign(sender, <<sender, recipient, "None", amount, 2>>)

\* the transaction dicts found in a chain file: a coinbase, transfers of
\* one unit and of two signed by their sender, a transfer of nothing, and
\* transfers that carry somebody else's signature or none
FileTransactions ==
  {[sender |-> "0", recipient |-> "N", amount |-> Reward,
    message |-> "None", signature |-> NoSignature],
   [sender |-> "N", recipient |-> "A", amount |-> 1,
    message |-> "None", signature |-> Signed("N", "A", 1)],
   [sender |-> "N", recipient |-> "A", amount |-> 2,
    message |-> "None", signature |-> Signed("N", "A", 2)],
   [sender |-> "A", recipient |-> "N", amount |-> 0,
    message |-> "None", signature |-> Signed("A", "N", 0)],
   [sender |-> "N", recipient |-> "A", amount |-> 1,
    message |-> "None", signature |-> Signed("A", "A", 1)],
   [sender |-> "N", recipient |-> "A", amount |-> 1,
    message |-> "None", signature |-> NoSignature]}

\* the transaction lists of a block of a chain file
FileBlocks ==
  UNION {[1..n -> FileTransactions] : n \in 0..MaxBlockTx}

RECURSIVE FileChain(_)
\* the chain of blocks mined at time 0 that hold these transaction lists
FileChain(tss) ==
  IF Len(tss) = 1 THEN <<PeerGenesis(0, tss[1])>>
  ELSE Extended(FileChain(SubSeq(tss, 1, Len(tss) - 1)), 0, tss[Len(tss)])

\* the contents of CHAIN_FILE the program is started on: the empty list
\* and chains of up to MaxFileLen blocks
ChainFiles ==
  {<<>>} \cup
  {FileChain(tss) : tss \in UNION {[1..n -> FileBlocks] : n \in 1..MaxFileLen}}

\* the process is stopped, its memory is lost, and the program is started
\* on a chain file
Restart(file) ==
  /\ request = NoRequest
  /\ request' = [op |-> "start"]
  /\ chain_file' = file
  /\ chain' = <<>>
  /\ current_transactions' = <<>>
  /\ addresses' = <<>>
  /\ nodes' = {}
  /\ admitted' = <<>>
  /\ UNCHANGED <<nodes_file, clock, response>>

RestartAny == \E file \in ChainFiles : Restart(file)

\* Blockchain(): the replay of the file, the load of the nodes file, and
\* the genesis block when the file holds no block.  When the constructor
\* raises there is no node.
Startup ==
  /\ request.op = "start"
  /\ response = NoResponse
  /\ LET r == Replay(chain_file)
         tx == new_transaction(r.addresses, r.chain, <<>>, r.id, "0",
                               public_key, Reward, NoSignature, "None")
         b == new_block(r.chain, tx.current_transactions, GenesisProof,
                        GenesisHash, clock)
     IN IF r.raised
        THEN /\ response' = [outcome |-> "raised"]
             /\ UNCHANGED <<chain, addresses, nodes, admitted, chain_file>>
        ELSE IF Len(r.chain) = 0
        THEN /\ chain' = b.chain
             /\ addresses' = tx.addresses
             /\ nodes' = nodes_file
             /\ admitted' = tx.current_transactions
             /\ chain_file' = update_chainFile(b.chain, chain_file)
             /\ response' = [outcome |-> "returned", log |-> r.log]
        ELSE /\ chain' = r.chain
             /\ addresses' = r.addresses
             /\ nodes' = nodes_file
             /\ admitted' = <<>>
             /\ chain_file' = chain_file
             /\ response' = [outcome |-> "returned", log |-> r.log]
  /\ UNCHANGED <<current_transactions, nodes_file, clock, request>>

NextStartup == RestartAny \/ Startup \/ Respond

SpecStartup == Init /\ [][NextStartup]_vars

\* ------------------------------------------------ two requests at once
\* app.run serves each request in a thread of its own and the handlers
\* take no lock, so the statements of two handlers interleave.  A handler
\* is cut where it calls into the Blockchain object: /transactions/new
\* into the checks of new_transaction ("check") and its two writes
\* ("execute"); /mine into the search of the proof on the last block
\* ("solve"), the coinbase transaction ("reward") and new_block ("forge").
\* The clock does not tick while the two are handled.
Frame(req) ==
  [req |-> req,
   pc |-> IF req.op = "admit" THEN "check" ELSE "solve",
   local |-> [none |-> TRUE],
   outcome |-> "none"]

\* the largest identity a Transaction object has so far
LastId(ts) ==
  IF ts = <<>> THEN 0
  ELSE ts[CHOOSE i \in 1..Len(ts) :
              \A j \in 1..Len(ts) : ts[j].id <= ts[i].id].id

\* the node's memory
Memory ==
  [chain |-> chain, current_transactions |-> current_transactions,
   addresses |-> addresses]

\* two requests reach the node together
ReceiveConcurrent ==
  /\ Len(chain) + 2 <= MaxChain
  /\ Len(admitted) + 2 <= MaxTx
  /\ \E req1, req2 \in CoreAdmitRequests \cup {MineRequest} :
       Receive([op |-> "concurrent",
                start |-> Memory,
                ids |-> <<LastId(admitted) + 1, LastId(admitted) + 2>>,
                handlers |-> <<Frame(req1), Frame(req2)>>])

\* new_transaction up to its return None, or to its call of
\* execute_transaction (lines 242-259)
CheckStep(k) ==
  LET h == request.handlers[k]
      r == new_transaction(addresses, chain, current_transactions,
                           request.ids[k], h.req.sender, h.req.recipient,
                           h.req.amount, h.req.signature, h.req.message)
      rc == getOrCreateAddress(addresses, h.req.recipient)
  IN /\ request.op = "concurrent"
     /\ response = NoResponse
     /\ h.pc = "check"
     /\ IF r.outcome = "accepted"
        THEN /\ addresses' = rc.addresses
             /\ request' =
                  [request EXCEPT
                     !.handlers[k].pc = "execute",
                     !.handlers[k].local =
                        [transaction |->
                           r.current_transactions[Len(r.current_transactions)],
                         index |-> r.index]]
        ELSE /\ addresses' = r.addresses
             /\ request' = [request EXCEPT !.handlers[k].pc = "done",
                                           !.handlers[k].outcome = r.outcome]
     /\ UNCHANGED <<chain, current_transactions, nodes, chain_file,
                    nodes_file, clock, admitted, response>>

\* execute_transaction and the append to current_transactions (lines
\* 261-267)
ExecuteStep(k) ==
  LET h == request.handlers[k]
  IN /\ request.op = "concurrent"
     /\ response = NoResponse
     /\ h.pc = "execute"
     /\ addresses' = execute_transaction(addresses, h.local.transaction)
     /\ current_transactions' =
          Append(current_transactions, h.local.transaction)
     /\ admitted' = Append(admitted, h.local.transaction)
     /\ request' = [request EXCEPT !.handlers[k].pc = "done",
                                   !.handlers[k].outcome = "accepted"]
     /\ UNCHANGED <<chain, nodes, chain_file, nodes_file, clock, response>>

\* mine() up to the proof (lines 472-476)
SolveStep(k) ==
  LET h == request.handlers[k]
      last_block == block_to_jsonSerializable(chain[Len(chain)])
  IN /\ request.op = "concurrent"
     /\ response = NoResponse
     /\ h.pc = "solve"
     /\ request' =
          [request EXCEPT
             !.handlers[k].pc = "reward",
             !.handlers[k].local =
                [last_block |-> last_block,
                 proof |-> proof_of_work(last_block.proof)]]
     /\ UNCHANGED <<chain, current_transactions, addresses, nodes,
                    chain_file, nodes_file, clock, admitted, response>>

\* the coinbase transaction of mine() (lines 481-485)
RewardStep(k) ==
  LET h == request.handlers[k]
      r == new_transaction(addresses, chain, current_transactions,
                           request.ids[k], "0", public_key, Reward,
                           NoSignature, "None")
  IN /\ request.op = "concurrent"
     /\ response = NoResponse
     /\ h.pc = "reward"
     /\ addresses' = r.addresses
     /\ current_transactions' = r.current_transactions
     /\ admitted' = Append(admitted,
                           r.current_transactions[Len(r.current_transactions)])
     /\ request' = [request EXCEPT !.handlers[k].pc = "forge"]
     /\ UNCHANGED <<chain, nodes, chain_file, nodes_file, clock, response>>

\* the hash of the block read at the start and new_block (lines 488-489)
ForgeStep(k) ==
  LET h == request.handlers[k]
      b == new_block(chain, current_transactions, h.local.proof,
                     hash(h.local.last_block), clock)
  IN /\ request.op = "concurrent"
     /\ response = NoResponse
     /\ h.pc = "forge"
     /\ chain' = b.chain
     /\ current_transactions' = b.current_transactions
     /\ chain_file' = update_chainFile(b.chain, chain_file)
     /\ request' = [request EXCEPT !.handlers[k].pc = "done",
                                   !.handlers[k].outcome = "returned"]
     /\ UNCHANGED <<addresses, nodes, nodes_file, clock, admitted, response>>

\* a thread runs its handler up to the next cut
HandlerStep ==
  \E k \in 1..2 :
    \/ CheckStep(k)
    \/ ExecuteStep(k)
    \/ SolveStep(k)
    \/ RewardStep(k)
    \/ ForgeStep(k)

\* both handlers have returned
BothReturn ==
  /\ request.op = "concurrent"
  /\ response = NoResponse
  /\ \A k \in 1..2 : request.handlers[k].pc = "done"
  /\ response' = [outcome |-> "returned",
                  outcomes |-> [k \in 1..2 |-> request.handlers[k].outcome]]
  /\ UNCHANGED <<chain, current_transactions, addresses, nodes, chain_file,
                 nodes_file, clock, admitted, request>>

NextConcurrent == ReceiveConcurrent \/ HandlerStep \/ BothReturn \/ Respond

SpecConcurrent == Init /\ [][NextConcurrent]_vars

\* ---------------------------------------------------------------- claims
\* the balance of the wallet with this identity (0 when there is none)
Balance(addrs, address) ==
  IF get_address(addrs, address) \in {0, NotFound} THEN 0
  ELSE addrs[get_address(addrs, address)].amount

\* the step in which the handler of POST /transactions/new runs
AdmitStep ==
  request.op = "admit" /\ response = NoResponse /\ response' # NoResponse

\* the wallets that exist keep their balance over the step
BalancesUnchanged ==
  /\ Len(addresses') >= Len(addresses)
  /\ \A i \in 1..Len(addresses) : addresses'[i] = addresses[i]

\* C1: after any sequence of admissions (accepted or not, any sender, the
\* sentinel included, any recipient, any integer amount) and of mined
\* blocks, every Address of the ledger has amount >= 0.
C1_NoNegativeBalance ==
  \A i \in 1..Len(addresses) : addresses[i].amount >= 0

\* the transactions of ts sent by (TRUE) or received by (FALSE) the address
RECURSIVE NamedBy(_, _, _)
NamedBy(ts, address, asSender) ==
  IF ts = <<>> THEN <<>>
  ELSE (IF (IF asSender THEN Head(ts).sender ELSE Head(ts).recipient) = address
        THEN <<Head(ts)>> ELSE <<>>)
       \o NamedBy(Tail(ts), address, asSender)

\* C2: starting from the empty ledger, the balance of every Address is the
\* sum of the amounts of the admitted transactions that name it as
\* recipient minus the sum of those that name it as sender; a request that
\* was not admitted contributes nothing and an admitted one contributes
\* once, also when sender and recipient are the same address.
C2_BalanceIsNetOfAdmitted ==
  \A i \in 1..Len(addresses) :
    addresses[i].amount =
      SumAmounts(NamedBy(admitted, addresses[i].address, FALSE))
      - SumAmounts(NamedBy(admitted, addresses[i].address, TRUE))

\* a wallet has paid itself and another wallet, and the request just
\* handled was not admitted
C2_Witness ==
  /\ \E i \in 1..Len(admitted) :
       admitted[i].sender # "0" /\ admitted[i].sender = admitted[i].recipient
  /\ request.op = "admit"
  /\ response.outcome \in {"rejected", "raised"}

\* C3: an admission with amount <= 0 is rejected whatever the sender and
\* the recipient: the rejection value is returned, no balance changes and
\* nothing is appended to the pending pool.
C3_NonPositiveAmountRejected ==
  [][(AdmitStep /\ request.amount <= 0)
       => /\ response'.outcome = "rejected"
          /\ BalancesUnchanged
          /\ current_transactions' = current_transactions]_vars

\* C4: an admission from a sender other than the sentinel is accepted only
\* if the sender was an Address of the ledger before the call with a
\* balance >= amount; an unknown sender, and a sender asked to send more
\* than its balance, is rejected.
C4_SenderKnownAndFunded ==
  [][(AdmitStep /\ request.sender # "0")
       => /\ response'.outcome = "accepted"
               => /\ get_address(addresses, request.sender) # NotFound
                  /\ Balance(addresses, request.sender) >= request.amount
          /\ (\/ get_address(addresses, request.sender) = NotFound
              \/ Balance(addresses, request.sender) < request.amount)
               => response'.outcome = "rejected"]_vars

\* a transfer from a wallet has just been accepted
C4_Witness ==
  /\ request.op = "admit"
  /\ request.sender # "0"
  /\ request.sender # request.recipient
  /\ response.outcome = "accepted"

\* C5: a signature is bound to the count of the sender's transactions, so
\* an admitted transfer submitted again with the same signature is
\* rejected: no two admitted transactions of a wallet carry the same
\* signature.
C5_NoReplay ==
  \A i, j \in 1..Len(admitted) :
    (i < j /\ admitted[i].sender # "0" /\ admitted[i].amount > 0
           /\ admitted[i].sender = admitted[j].sender)
      => admitted[i].signature # admitted[j].signature

\* the signature was not made by the sender over the request's fields
BadSignature(req) ==
  \/ req.signature.kind = "None"
  \/ req.signature.signer # req.sender
  \/ \A n \in 0..MaxCount :
       req.signature.msg #
         <<req.sender, req.recipient, req.message, req.amount, n>>

\* the request is one of the four kinds of rejected transaction
MustReject(req) ==
  \/ get_address(addresses, req.sender) = NotFound
  \/ req.amount <= 0
  \/ req.sender # "0" /\ Balance(addresses, req.sender) < req.amount
  \/ req.sender # "0" /\ BadSignature(req)

\* C6: a rejected admission (unknown sender, non-positive amount,
\* insufficient balance, bad signature) returns the rejection value and
\* does not raise; the chain, the pending pool and the balance of every
\* existing Address are unchanged, and no Address is created for an
\* unknown sender.
C6_RejectionReturnsAndChangesNothing ==
  [][(AdmitStep /\ MustReject(request))
       => /\ response'.outcome = "rejected"
          /\ chain' = chain
          /\ current_transactions' = current_transactions
          /\ BalancesUnchanged
          /\ get_address(addresses, request.sender) = NotFound
               => addresses' = addresses]_vars

\* the step in which resolve_conflicts runs
ResolveStep ==
  request.op = "resolve" /\ response = NoResponse /\ response' # NoResponse

\* the peer answered with a chain of the length it reports
Truthful(answer) ==
  /\ answer.fetch = "ok" /\ answer.status = 200
  /\ answer.chain # <<>> /\ answer.length = Len(answer.chain)

\* the peers whose chain is valid and longer than ch
Candidates(answers, ch) ==
  {n \in DOMAIN answers :
     valid_chain(answers[n].chain) /\ Len(answers[n].chain) > Len(ch)}

\* C7: resolve looks at every registered peer: when some peer reports a
\* valid chain longer than the local one, it returns replaced = true and
\* the local chain becomes the longest such chain; otherwise the local
\* chain is kept and replaced = false; whatever the order of the peers.
\* (Stated for the rounds in which every peer answers, with a chain of the
\* length it reports.)
C7_ResolveAdoptsLongestValid ==
  [][(/\ ResolveStep
      /\ nodes # {}
      /\ \A n \in nodes : Truthful(response'.answers[n]))
       => LET answers == response'.answers
              cs == Candidates(answers, chain)
          IN IF cs # {}
             THEN /\ response'.replaced
                  /\ \E n \in cs :
                       /\ chain' = answers[n].chain
                       /\ \A m \in cs :
                            Len(answers[m].chain) <= Len(answers[n].chain)
             ELSE /\ ~response'.replaced
                  /\ chain' = chain]_vars

\* C8: in every state reached by admissions, mining and resolve (peer
\* chains carry any timestamps but pass valid_chain), every block of the
\* local chain after the first has the hash of the block before it as
\* previous_hash, a proof valid for that block's proof, and a timestamp
\* not before that block's.
C8_ChainInvariant ==
  \A i \in 2..Len(chain) :
    /\ chain[i].previous_hash = hash(Hashed(chain[i - 1]))
    /\ valid_proof(chain[i - 1].proof, chain[i].proof)
    /\ chain[i].timestamp >= chain[i - 1].timestamp

\* valid_chain has returned for a changed copy of a chain it accepts
TamperedValidChainReturned ==
  /\ request.op = "valid_chain"
  /\ response # NoResponse
  /\ valid_chain(request.original)

\* C9 as claimed: whatever block of a valid chain has one field changed,
\* the last block included, valid_chain rejects the changed chain.
C9_AnyTamperingRejected ==
  TamperedValidChainReturned => ~response.valid

\* C9: when one field of one block that is not the last of a valid chain
\* is changed, valid_chain rejects the changed chain (the hash of that
\* block no longer is the previous_hash of the block after it).
C9_TamperingBeforeLastRejected ==
  (TamperedValidChainReturned /\ request.position < Len(request.original))
    => ~response.valid

\* the transactions of the middle block of a valid chain of three blocks
\* were changed, and valid_chain has returned
C9_Witness ==
  /\ TamperedValidChainReturned
  /\ Len(request.original) = 3
  /\ request.position = 2
  /\ request.field = "transactions"

\* the positions of the pool that hold the Transaction object
InPool(t) ==
  {k \in 1..Len(current_transactions) : current_transactions[k].id = t.id}

\* the (block, position) pairs of the chain that hold the Transaction object
InChain(ch, t) ==
  UNION {{<<i, k>> : k \in {k \in 1..Len(ch[i].transactions) :
                              /\ IsObject(ch[i].transactions[k])
                              /\ ch[i].transactions[k].id = t.id}} :
         i \in 1..Len(ch)}

\* is the Transaction object among those of the sequence
Reports(ts, t) ==
  \E k \in 1..Len(ts) : IsObject(ts[k]) /\ ts[k].id = t.id

\* where the Transaction object is: in the pool only and once, in one
\* block only and once, or neither of the two
Placed(t) ==
  IF Cardinality(InPool(t)) = 1 /\ InChain(chain, t) = {} THEN "pending"
  ELSE IF InPool(t) = {} /\ Cardinality(InChain(chain, t)) = 1
       THEN "historical"
       ELSE "lost"

\* what a result of getTransactionsByAddress says of the Transaction object
ReportedAs(result, t) ==
  IF Reports(result[2], t) /\ ~Reports(result[1], t) THEN "pending"
  ELSE IF Reports(result[1], t) /\ ~Reports(result[2], t)
       THEN "historical"
       ELSE "unreported"

\* the senders and the recipients of the admitted transactions
Parties ==
  {admitted[i].sender : i \in 1..Len(admitted)}
    \cup {admitted[i].recipient : i \in 1..Len(admitted)}

\* every admitted transaction is pending or historical, and
\* getTransactionsByAddress says the same for its sender and its recipient
PendingOrHistorical ==
  /\ \A i \in 1..Len(admitted) : Placed(admitted[i]) # "lost"
  /\ \A address \in Parties :
       LET result == getTransactionsByAddress(addresses, chain,
                                              current_transactions, address)
       IN \A i \in 1..Len(admitted) :
            address \in {admitted[i].sender, admitted[i].recipient}
              => ReportedAs(result, admitted[i]) = Placed(admitted[i])

\* a transaction of a block stays where it is, and a forged block takes
\* the transactions of the pool in their order
StaysOrMoves(t) ==
  /\ InChain(chain, t) # {} => InChain(chain', t) = InChain(chain, t)
  /\ (InPool(t) # {} /\ chain' # chain)
       => InChain(chain', t) = {<<Len(chain'), k>> : k \in InPool(t)}

\* C10: under admissions and mining, an admitted transaction is in the
\* pending pool, and reported as pending for its sender and its recipient,
\* until the next block is forged; from then on it is in exactly one block
\* of the chain, that block, reported as historical and not in the pool.
\* None is lost and none appears in two blocks.
C10_PendingThenHistorical ==
  /\ []PendingOrHistorical
  /\ [][\A i \in 1..Len(admitted) : StaysOrMoves(admitted[i])]_vars

\* a transfer that waited in the pool is now in a mined block, with the
\* coinbase transaction of that block behind it
C10_Witness ==
  \E i \in 2..Len(chain) :
    /\ Len(chain[i].transactions) = 2
    /\ chain[i].transactions[1].sender # "0"
    /\ chain[i].transactions[2].sender = "0"
    /\ current_transactions = <<>>

\* proof_of_work has returned for the call in progress
ProofOfWorkReturned ==
  request.op = "proof_of_work" /\ response # NoResponse

\* C11: for every last_proof that has a valid proof, proof_of_work
\* terminates and returns the smallest proof >= 0 that valid_proof accepts
\* for it; so the returned proof is valid, and it is the same on every call
\* with the same last_proof (the value of the search from 0).
C11_SmallestValidProof ==
  /\ [](ProofOfWorkReturned
          => /\ valid_proof(request.last_proof, response.proof)
             /\ \A p \in 0..(response.proof - 1) :
                  ~valid_proof(request.last_proof, p)
             /\ response.proof = proof_of_work(request.last_proof))
  /\ \A last_proof \in 0..MaxLastProof :
       (/\ request.op = "proof_of_work"
        /\ request.last_proof = last_proof
        /\ \E p \in 0..MaxProof : valid_proof(last_proof, p))
         ~> ProofOfWorkReturned

\* proof_of_work has returned a proof it found after two failed tries
C11_Witness ==
  ProofOfWorkReturned /\ response.proof = 2

\* C12: resolve never changes the pending pool, whatever the peers answer
\* and whether it returns or raises; with no peer registered it returns
\* replaced = false and no rejected peer, and the chain, the pending pool
\* and the address ledger are as before.
C12_ResolveKeepsPool ==
  [][ResolveStep
       => /\ current_transactions' = current_transactions
          /\ nodes = {}
               => /\ response'.resolved
                  /\ ~response'.replaced
                  /\ response'.invalid_chains = <<>>
                  /\ chain' = chain
                  /\ addresses' = addresses]_vars

\* resolve has replaced the chain while a transaction waited in the pool
C12_Witness ==
  /\ request.op = "resolve"
  /\ response # NoResponse
  /\ response.replaced
  /\ current_transactions # <<>>

\* C13: after resolve the rejected set holds exactly the visited peers
\* whose chain fails valid_chain or is not longer than the best length
\* known when it is examined (shorter or equal, valid or not); a peer whose
\* longer valid chain is adopted is not in it.  (Stated for a visited peer
\* that answers with a chain of the length it reports.)
C13_RejectedSetExact ==
  [][(/\ ResolveStep
      /\ nodes # {}
      /\ Truthful(response'.answers[response'.first]))
       => LET node == response'.first
              answer == response'.answers[node]
          IN /\ response'.resolved
             /\ response'.invalid_chains =
                  IF \/ ~valid_chain(answer.chain)
                     \/ answer.length <= Len(chain)
                  THEN <<node>> ELSE <<>>
             /\ response'.replaced
                  <=> (valid_chain(answer.chain) /\ answer.length > Len(chain))]_vars

\* the content of the chain file that holds the chain
Persisted(ch) == [i \in 1..Len(ch) |-> Hashed(ch[i])]

\* C14: after every operation that changes the chain, a forged block and
\* a replacement by resolve alike, the chain file holds the chain of the
\* node, so a restart right after a resolve that returned replaced = true
\* loads the adopted chain.
C14_ChainFileFollowsChain ==
  [][chain' # chain => chain_file' = Persisted(chain')]_vars

\* C15: in every state reached by admissions, mining and resolve, the
\* block at position i of the chain (from 0) has index i; so the index an
\* accepted admission returns is the length of the chain.
C15_IndexIsPosition ==
  /\ \A i \in 1..Len(chain) : chain[i].index = i - 1
  /\ (request.op = "admit" /\ response # NoResponse
        /\ response.outcome = "accepted")
       => response.index = Len(chain)

\* the step in which new_block runs
NewBlockStep ==
  request.op = "forge" /\ response = NoResponse /\ response' # NoResponse

\* C16: new_block(proof, previous_hash) appends exactly one block: its
\* index is the length of the chain before the call, its proof the one
\* given, its transactions the whole pending pool in admission order, its
\* previous_hash the one given or, when none is given, the hash of the
\* block that was last.  The pool is empty afterwards and the blocks before
\* are unchanged; a later admission changes no block.
C16_ForgeAppendsOneBlock ==
  [][/\ NewBlockStep
       => /\ response'.outcome = "returned"
          /\ Len(chain') = Len(chain) + 1
          /\ SubSeq(chain', 1, Len(chain)) = chain
          /\ chain'[Len(chain')].index = Len(chain)
          /\ chain'[Len(chain')].proof = request.proof
          /\ chain'[Len(chain')].transactions = current_transactions
          /\ chain'[Len(chain')].previous_hash =
               IF request.previous_hash # NoHash THEN request.previous_hash
               ELSE hash(Hashed(chain[Len(chain)]))
          /\ current_transactions' = <<>>
     /\ AdmitStep => chain' = chain]_vars

\* the constructor has returned for the chain file it was started on
Started ==
  request.op = "start" /\ response # NoResponse
    /\ response.outcome = "returned"

\* C17: at startup a transaction of the persisted chain that fails
\* is_valid (amount 0, or more than the sender holds at that point of the
\* replay) or the signature check is not executed: it changes no balance;
\* so no Address of the rebuilt ledger has a negative amount, also when the
\* file holds an overspending transaction.
C17_ReplaySkipsInvalid ==
  Started
    => /\ \A k \in 1..Len(response.log) :
            response.log[k].verdict = "invalid"
              => response.log[k].after = response.log[k].before
       /\ \A i \in 1..Len(addresses) : addresses[i].amount >= 0

\* the fetch of /chain from the peer failed: no connection, or a status
\* other than 200
FetchFailed(answer) ==
  answer.fetch = "conn_error" \/ answer.status # 200

\* is the node among those of the sequence
Recorded(invalid_chains, node) ==
  \E k \in 1..Len(invalid_chains) : invalid_chains[k] = node

\* C18: when the fetch of a peer's chain fails during resolve, nothing is
\* raised: the peer is recorded as rejected and the other peers are still
\* examined, so a longer valid chain that a later peer offers is adopted.
C18_FetchFailureIsSkipped ==
  [][(/\ ResolveStep
      /\ nodes # {}
      /\ FetchFailed(response'.answers[response'.first]))
       => LET answers == response'.answers
              later == {n \in Candidates(answers, chain) :
                          Truthful(answers[n])}
          IN /\ response'.resolved
             /\ Recorded(response'.invalid_chains, response'.first)
             /\ later # {}
                  => /\ response'.replaced
                     /\ \E n \in later : chain' = answers[n].chain]_vars

\* the two handlers have returned
BothReturned ==
  request.op = "concurrent" /\ response # NoResponse

\* the memory after the handler of the request has run alone on memory m,
\* its Transaction object getting the identity id
Handled(m, req, id) ==
  IF req.op = "admit"
  THEN LET r == new_transaction(m.addresses, m.chain,
                                m.current_transactions, id, req.sender,
                                req.recipient, req.amount, req.signature,
                                req.message)
       IN [chain |-> m.chain,
           current_transactions |-> r.current_transactions,
           addresses |-> r.addresses]
  ELSE LET last_block == block_to_jsonSerializable(m.chain[Len(m.chain)])
           r == new_transaction(m.addresses, m.chain,
                                m.current_transactions, id, "0", public_key,
                                Reward, NoSignature, "None")
           b == new_block(m.chain, r.current_transactions,
                          proof_of_work(last_block.proof), hash(last_block),
                          clock)
       IN [chain |-> b.chain,
           current_transactions |-> b.current_transactions,
           addresses |-> r.addresses]

\* the memory after the two requests were handled one after the other,
\* the one of handler first first
Serial(first) ==
  LET second == 3 - first
  IN Handled(Handled(request.start, request.handlers[first].req,
                     request.ids[first]),
             request.handlers[second].req, request.ids[second])

\* the two requests are transfers from one wallet to another, and the
\* wallet holds enough for each of them and not for both
OneCovered ==
  LET req1 == request.handlers[1].req
      req2 == request.handlers[2].req
      held == Balance(request.start.addresses, req1.sender)
  IN /\ req1.op = "admit" /\ req2.op = "admit"
     /\ req1.sender # "0" /\ req1.sender = req2.sender
     /\ req1.recipient # req1.sender /\ req2.recipient # req2.sender
     /\ req1.amount > 0 /\ req2.amount > 0
     /\ req1.amount <= held /\ req2.amount <= held
     /\ held < req1.amount + req2.amount

\* C19: when the node handles two requests among /transactions/new and
\* /mine at once, the memory they leave is the one some serial order of
\* the two leaves.  So two mine requests never append two blocks with the
\* same previous_hash, and two transfers from a sender who holds enough
\* for one of them only are never both accepted.
C19_ConcurrentIsSerial ==
  BothReturned
    => /\ Memory \in {Serial(1), Serial(2)}
       /\ \A i, j \in 1..Len(chain) :
            i < j => chain[i].previous_hash # chain[j].previous_hash
       /\ OneCovered
            => ~(response.outcomes[1] = "accepted"
                   /\ response.outcomes[2] = "accepted")

\* C20: resolve never shortens the chain: when it returns replaced = true
\* the chain has more blocks than before the call, also when the length a
\* peer reports is not the number of blocks of the chain it serves.
C20_ResolveNeverShortens ==
  [][(ResolveStep /\ response'.replaced) => Len(chain') > Len(chain)]_vars

\* the transactions of the chain, block after block, and then of the pool
Ledgered(ch, pool) ==
  Flatten([i \in 1..Len(ch) |-> ch[i].transactions]) \o pool

\* C21: in every state reached by admissions, mining and resolve, the
\* balance of every Address is what it received minus what it sent over
\* the transactions of the chain and of the pending pool, also right after
\* resolve has replaced the chain by the chain of a peer.
C21_LedgerIsNetOfChainAndPool ==
  \A i \in 1..Len(addresses) :
    addresses[i].amount =
      SumAmounts(NamedBy(Ledgered(chain, current_transactions),
                         addresses[i].address, FALSE))
      - SumAmounts(NamedBy(Ledgered(chain, current_transactions),
                           addresses[i].address, TRUE))

====
